---- MODULE Spec2Model ----
(***************************************************************************)
(* A model of googletest-rust's edit-distance support                      *)
(* (matcher_support/edit_distance.rs) and of the elements_are! matcher     *)
(* (matchers/elements_are_matcher.rs).                                     *)
(*                                                                         *)
(* edit_list is modelled as a program: one action per loop iteration, on   *)
(* the call frame held in the variables left .. path.  The same step       *)
(* functions, iterated to completion, give the operator edit_list that     *)
(* the string distance calls on the characters of two lines.               *)
(*                                                                         *)
(* Rust indexes from 0 and TLA+ sequences from 1: left[idx - 1] of the     *)
(* source is left[idx] here, and the table offset o of the source is       *)
(* position o + 1 of the sequence table.table.                             *)
(*                                                                         *)
(* An f64 cost c is represented by the integer c * ONE, where ONE is a     *)
(* multiple of every divisor the string distance divides by, so that the   *)
(* quotients 1 + edits / max are exact.                                    *)
(***************************************************************************)
EXTENDS Integers, Sequences, FiniteSets, TLC

VARIABLES
    kind,       \* the element type T of the call: "char" or "str"
    left,       \* edit_list: the collected left sequence
    right,      \* edit_list: the collected right sequence
    pc,         \* edit_list: the position of the call
    table,      \* edit_list: the Table, [size1, table]
    idx,        \* edit_list: loop variable over left
    idy,        \* edit_list: loop variable over right
    current,    \* edit_list: the trace-back position <<i, j>>
    path,       \* edit_list: the edits collected so far
    dist,       \* the outcome of the call <&str as Distance>::distance(left[0], right[0])
    actual,     \* ElementsAre: the container handed to the matcher
    elements,   \* ElementsAre: the position matchers
    size_hint,  \* ElementsAre: the lower bound actual's iterator reports
    call,       \* ElementsAre: the method called last, and describe's argument
    out         \* ElementsAre: what that method returned

vars == <<kind, left, right, pc, table, idx, idy, current, path, dist,
          actual, elements, size_hint, call, out>>

editVars == <<kind, left, right, pc, table, idx, idy, current, path, dist>>
matcherVars == <<actual, elements, size_hint, call, out>>

----------------------------------------------------------------------------
(* Bounds of the model *)

\* the longest sequence of characters handed to edit_list, and the longest line
MaxLen == 3
\* the number of distinct characters
NumChars == 2

\* the longest container and the longest list of position matchers
MaxElems == 3
\* the number of distinct element values
NumVals == 2

Chars == 1..NumChars
Values == 1..NumVals

RECURSIVE SeqsUpTo(_, _)
\* every sequence over S of length at most n
SeqsUpTo(S, n) ==
    IF n = 0 THEN {<<>>}
    ELSE LET shorter == SeqsUpTo(S, n - 1)
         IN  shorter \cup {Append(s, x) : s \in {t \in shorter : Len(t) = n - 1}, x \in S}

Texts == SeqsUpTo(Chars, MaxLen)

RECURSIVE Factorial(_)
Factorial(n) == IF n <= 1 THEN 1 ELSE n * Factorial(n - 1)

\* the representation of the f64 value 1.0
ONE == Factorial(MaxLen)

Max(a, b) == IF a >= b THEN a ELSE b
Min(a, b) == IF a <= b THEN a ELSE b

----------------------------------------------------------------------------
(* edit_distance.rs: Edit, Table *)

ExtraLeft(l) == [kind |-> "ExtraLeft", left |-> l]
ExtraRight(r) == [kind |-> "ExtraRight", right |-> r]
Both(l, r, d) == [kind |-> "Both", left |-> l, right |-> r, distance |-> d]

TableElement(c, e) == [cost |-> c, last_edit |-> e]

\* Table::new: the vector is allocated but not filled
TableNew(size1, size2) == [size1 |-> size1, table |-> <<>>]

\* Table::push
TablePush(t, new_element) == [t EXCEPT !.table = Append(@, new_element)]

MutOffsetRowMajor(t, idx1, idx2) == idx1 * t.size1 + idx2
\* the offset Index<(usize, usize)>::index reads
TableOffset(t, idx1, idx2) == idx1 + t.size1 * idx2

\* indexing the vector past its length panics
TableHas(t, idx1, idx2) == TableOffset(t, idx1, idx2) < Len(t.table)
TableIndex(t, idx1, idx2) == t.table[TableOffset(t, idx1, idx2) + 1]

----------------------------------------------------------------------------
(* edit_distance.rs: the call frame of edit_list and its steps *)

Frame(k, l, r) ==
    [kind |-> k, left |-> l, right |-> r, pc |-> "start",
     table |-> TableNew(0, 0), idx |-> 0, idy |-> 0,
     current |-> <<0, 0>>, path |-> <<>>]

Panic(f) == [f EXCEPT !.pc = "panic"]

\* the outcome of a call that may panic
Returned(v) == [panic |-> FALSE, value |-> v]
Panicked == [panic |-> TRUE, value |-> 0]

RECURSIVE Reverse(_)
\* Vec::reverse
Reverse(s) == IF s = <<>> THEN <<>> ELSE Append(Reverse(Tail(s)), Head(s))

\* the cost the string distance gives an edit: the recorded distance of a
\* Both, 1.0 for an ExtraLeft or ExtraRight
EditCost(e) == IF e.kind = "Both" THEN e.distance ELSE ONE

RECURSIVE SumCosts(_)
SumCosts(edits) ==
    IF edits = <<>> THEN 0 ELSE EditCost(Head(edits)) + SumCosts(Tail(edits))

MutCharDistanceTwo(l, r) == IF l = r THEN 0 ELSE 2 * ONE
\* impl Distance for char
CharDistance(l, r) == IF l = r THEN 0 ELSE ONE

RECURSIVE MutMinByLast(_)
MutMinByLast(s) ==
    IF Len(s) = 1 THEN s[1]
    ELSE LET x == MutMinByLast(SubSeq(s, 1, Len(s) - 1))
             y == s[Len(s)]
         IN  IF x.cost >= y.cost THEN y ELSE x

RECURSIVE MinBy(_)
\* Iterator::min_by under partial_cmp on the costs: of several equally
\* minimum candidates the first is returned
MinBy(s) ==
    IF Len(s) = 1 THEN s[1]
    ELSE LET x == MinBy(SubSeq(s, 1, Len(s) - 1))
             y == s[Len(s)]
         IN  IF x.cost > y.cost THEN y ELSE x

RECURSIVE Run(_)
RECURSIVE StrDistance(_, _)

\* T::distance, dispatched on the element type
Distance(k, l, r) ==
    IF k = "char" THEN Returned(CharDistance(l, r)) ELSE StrDistance(l, r)

\* lines 25-38: collect, Table::new, push cell (0,0); left[0] panics on an
\* empty left
StartStep(f) ==
    IF Len(f.left) = 0 THEN Panic(f)
    ELSE [f EXCEPT
            !.table = TablePush(TableNew(Len(f.left) + 1, Len(f.right) + 1),
                                TableElement(0, ExtraLeft(f.left[1]))),
            !.idx = 1,
            !.pc = "row0"]

\* lines 40-45: for idx in 1..(left.len() + 1)
Row0Step(f) ==
    IF f.idx < Len(f.left) + 1
    THEN [f EXCEPT
            !.table = TablePush(@, TableElement(f.idx * ONE, ExtraLeft(f.left[f.idx]))),
            !.idx = @ + 1]
    ELSE [f EXCEPT !.idy = 1, !.pc = "col"]

MutColStepOffByOne(f) ==
    IF f.idy < Len(f.right) + 1
    THEN [f EXCEPT
            !.table = TablePush(@, TableElement((f.idy - 1) * ONE,
                                                ExtraRight(f.right[f.idy]))),
            !.idx = 1,
            !.pc = "cell"]
    ELSE [f EXCEPT
            !.current = <<Len(f.left), Len(f.right)>>,
            !.path = <<>>,
            !.pc = "trace"]

\* lines 46-50 and 75-76: for idy in 1..(right.len() + 1), then the start of
\* the trace-back
ColStep(f) ==
    IF f.idy < Len(f.right) + 1
    THEN [f EXCEPT
            !.table = TablePush(@, TableElement(f.idy * ONE, ExtraRight(f.right[f.idy]))),
            !.idx = 1,
            !.pc = "cell"]
    ELSE [f EXCEPT
            !.current = <<Len(f.left), Len(f.right)>>,
            !.path = <<>>,
            !.pc = "trace"]

MutCandidatesNoDelete(f, distance) ==
    LET left_element == f.left[f.idx]
        right_element == f.right[f.idy]
    IN  << TableElement(ONE + TableIndex(f.table, f.idx, f.idy - 1).cost,
                        ExtraRight(right_element)),
           TableElement(distance + TableIndex(f.table, f.idx - 1, f.idy - 1).cost,
                        Both(left_element, right_element, distance)) >>

\* lines 52-66: [extra_left, extra_right, both]
Candidates(f, distance) ==
    LET left_element == f.left[f.idx]
        right_element == f.right[f.idy]
    IN  << TableElement(ONE + TableIndex(f.table, f.idx - 1, f.idy).cost,
                        ExtraLeft(left_element)),
           TableElement(ONE + TableIndex(f.table, f.idx, f.idy - 1).cost,
                        ExtraRight(right_element)),
           TableElement(distance + TableIndex(f.table, f.idx - 1, f.idy - 1).cost,
                        Both(left_element, right_element, distance)) >>

\* lines 51-73: for idx in 1..(left.len() + 1), one interior cell
CellStep(f) ==
    IF f.idx < Len(f.left) + 1
    THEN IF ~ /\ TableHas(f.table, f.idx - 1, f.idy)
              /\ TableHas(f.table, f.idx, f.idy - 1)
              /\ TableHas(f.table, f.idx - 1, f.idy - 1)
         THEN Panic(f)
         ELSE LET distance == Distance(f.kind, f.left[f.idx], f.right[f.idy])
              IN  IF distance.panic THEN Panic(f)
                  ELSE [f EXCEPT
                          !.table = TablePush(@, MinBy(Candidates(f, distance.value))),
                          !.idx = @ + 1]
    ELSE [f EXCEPT !.idy = @ + 1, !.pc = "col"]

MutPredecessorSwapped(cur, edit) ==
    CASE edit.kind = "ExtraLeft" -> <<cur[1], cur[2] - 1>>
      [] edit.kind = "ExtraRight" -> <<cur[1] - 1, cur[2]>>
      [] edit.kind = "Both" -> <<cur[1] - 1, cur[2] - 1>>

\* lines 79-83: the cell the recorded edit came from
Predecessor(cur, edit) ==
    CASE edit.kind = "ExtraLeft" -> <<cur[1] - 1, cur[2]>>
      [] edit.kind = "ExtraRight" -> <<cur[1], cur[2] - 1>>
      [] edit.kind = "Both" -> <<cur[1] - 1, cur[2] - 1>>

\* lines 77-85: one iteration of while current != (0, 0); a usize below 0
\* and a read past the table panic
TraceStep(f) ==
    IF ~TableHas(f.table, f.current[1], f.current[2]) THEN Panic(f)
    ELSE LET edit == TableIndex(f.table, f.current[1], f.current[2]).last_edit
             prev == Predecessor(f.current, edit)
         IN  IF prev[1] < 0 \/ prev[2] < 0 THEN Panic(f)
             ELSE [f EXCEPT !.current = prev, !.path = Append(@, edit)]

\* lines 86-87: path.reverse(); path
ReturnStep(f) == [f EXCEPT !.path = Reverse(@), !.pc = "done"]

Step(f) ==
    CASE f.pc = "start" -> StartStep(f)
      [] f.pc = "row0" -> Row0Step(f)
      [] f.pc = "col" -> ColStep(f)
      [] f.pc = "cell" -> CellStep(f)
      [] f.pc = "trace" -> IF f.current # <<0, 0>> THEN TraceStep(f) ELSE ReturnStep(f)

\* the call run to its end: pc is "done" (path is the result) or "panic"
Run(f) == IF f.pc \in {"done", "panic"} THEN f ELSE Run(Step(f))

\* edit_list(left, right) for elements of type k
edit_list(k, l, r) == Run(Frame(k, l, r))

\* impl Distance for &str, lines 119-131
StrDistance(l, r) ==
    IF l = r THEN Returned(0)
    ELSE LET edits == edit_list("char", l, r)
         IN  IF edits.pc = "panic" THEN Panicked
             ELSE Returned(ONE + SumCosts(edits.path) \div Max(Len(l), Len(r)))

----------------------------------------------------------------------------
(* The program: edit_list on the call frame *)

TheFrame ==
    [kind |-> kind, left |-> left, right |-> right, pc |-> pc, table |-> table,
     idx |-> idx, idy |-> idy, current |-> current, path |-> path]

Becomes(f) ==
    /\ kind' = f.kind
    /\ left' = f.left
    /\ right' = f.right
    /\ pc' = f.pc
    /\ table' = f.table
    /\ idx' = f.idx
    /\ idy' = f.idy
    /\ current' = f.current
    /\ path' = f.path

\* the frame of a call edit_list(l, r) that is about to start
Called(k, l, r) ==
    /\ kind = k
    /\ left = l
    /\ right = r
    /\ pc = "start"
    /\ table = TableNew(0, 0)
    /\ idx = 0
    /\ idy = 0
    /\ current = <<0, 0>>
    /\ path = <<>>

NoMatcher ==
    /\ actual = <<>>
    /\ elements = <<>>
    /\ size_hint = 0
    /\ call = [method |-> "none", matcher_result |-> "none"]
    /\ out = [value |-> "", evaluated |-> <<>>]

\* edit_list on two sequences of characters
Init ==
    /\ \E l \in Texts, r \in Texts : Called("char", l, r)
    /\ dist = <<>>
    /\ NoMatcher

\* edit_list on two sequences of at most one line each, as the line diff
\* calls it, and the string distance on the two lines
InitStr ==
    /\ \E a \in Texts, b \in Texts : Called("str", <<a>>, <<b>>)
    /\ dist = <<>>
    /\ NoMatcher

Start ==
    /\ pc = "start"
    /\ Becomes(StartStep(TheFrame))
    /\ UNCHANGED <<dist, matcherVars>>

FillRow0 ==
    /\ pc = "row0"
    /\ Becomes(Row0Step(TheFrame))
    /\ UNCHANGED <<dist, matcherVars>>

FillCol ==
    /\ pc = "col"
    /\ Becomes(ColStep(TheFrame))
    /\ UNCHANGED <<dist, matcherVars>>

FillCell ==
    /\ pc = "cell"
    /\ Becomes(CellStep(TheFrame))
    /\ UNCHANGED <<dist, matcherVars>>

Trace ==
    /\ pc = "trace"
    /\ current # <<0, 0>>
    /\ Becomes(TraceStep(TheFrame))
    /\ UNCHANGED <<dist, matcherVars>>

Return ==
    /\ pc = "trace"
    /\ current = <<0, 0>>
    /\ Becomes(ReturnStep(TheFrame))
    /\ UNCHANGED <<dist, matcherVars>>

\* <&str as Distance>::distance on the two lines
CallDistance ==
    /\ kind = "str"
    /\ dist = <<>>
    /\ dist' = <<StrDistance(left[1], right[1])>>
    /\ UNCHANGED <<kind, left, right, pc, table, idx, idy, current, path, matcherVars>>

Next == Start \/ FillRow0 \/ FillCol \/ FillCell \/ Trace \/ Return

NextStr == Next \/ CallDistance

Spec == Init /\ [][Next]_vars

SpecStr == InitStr /\ [][NextStr]_vars

----------------------------------------------------------------------------
(* Collaborators of ElementsAre that elements_are_matcher.rs imports: the   *)
(* leaf matcher eq, MatcherResult::pick, the zipped iterator and            *)
(* Description.                                                             *)

\* eq(expected)
Eq(expected) == [expected |-> expected]

\* EqMatcher::matches
EqMatches(e, a) == IF a = e.expected THEN "Matches" ELSE "DoesNotMatch"

\* MatcherResult::pick
Pick(matcher_result, matches, does_not_match) ==
    IF matcher_result = "Matches" THEN matches ELSE does_not_match

\* EqMatcher::describe
EqDescribe(e, matcher_result) ==
    Pick(matcher_result, "is equal to ", "isn't equal to ") \o ToString(e.expected)

\* Matcher::explain_match, the default every leaf matcher inherits
EqExplainMatch(e, a) == "which " \o EqDescribe(e, EqMatches(e, a))

\* zip(left, right)
Zip(l, r) == [left |-> l, right |-> r, has_size_mismatch |-> FALSE]

\* ZippedIterator::next: a pair while both sides have an element; the
\* mismatch is recorded when exactly one side is exhausted
ZipNext(z) ==
    IF z.left # <<>> /\ z.right # <<>>
    THEN [some |-> TRUE, a |-> Head(z.left), e |-> Head(z.right),
          zip |-> [z EXCEPT !.left = Tail(@), !.right = Tail(@)]]
    ELSE [some |-> FALSE, a |-> 0, e |-> 0,
          zip |-> [z EXCEPT !.has_size_mismatch = (z.left # <<>>) \/ (z.right # <<>>),
                            !.left = IF @ = <<>> THEN @ ELSE Tail(@),
                            !.right = IF @ = <<>> THEN @ ELSE Tail(@)]]

\* collect::<Description>()
Collect(fragments) == [elements |-> fragments, style |-> "bare", indent |-> 0]
\* Description::enumerate
Enumerate(d) == [d EXCEPT !.style = "enumerate"]
\* Description::bullet_list
BulletList(d) == [d EXCEPT !.style = "bullet"]
\* Description::indent
Indent(d) == [d EXCEPT !.indent = @ + 2]

RECURSIVE Spaces(_)
Spaces(n) == IF n = 0 THEN "" ELSE " " \o Spaces(n - 1)

\* the marker before element number i (from 0) of a list
Marker(style, i) ==
    CASE style = "bare" -> ""
      [] style = "bullet" -> "* "
      [] style = "enumerate" -> ToString(i) \o ". "

RECURSIVE DisplayFrom(_, _)
DisplayFrom(d, i) ==
    IF i >= Len(d.elements) THEN ""
    ELSE (IF i = 0 THEN "" ELSE "\n")
         \o Spaces(d.indent) \o Marker(d.style, i) \o d.elements[i + 1]
         \o DisplayFrom(d, i + 1)

\* impl Display for Description: one element per line
Display(d) == DisplayFrom(d, 0)

----------------------------------------------------------------------------
(* elements_are_matcher.rs: ElementsAre *)

RECURSIVE MutMatchesLoopIgnoresSize(_)
MutMatchesLoopIgnoresSize(zipped_iterator) ==
    LET n == ZipNext(zipped_iterator)
    IN  IF n.some
        THEN IF EqMatches(n.e, n.a) = "DoesNotMatch" THEN "DoesNotMatch"
             ELSE MutMatchesLoopIgnoresSize(n.zip)
        ELSE "Matches"

RECURSIVE MatchesLoop(_)
\* lines 102-111: the loop over the zipped iterator, which returns at the
\* first position that does not match, and the size check after it
MatchesLoop(zipped_iterator) ==
    LET n == ZipNext(zipped_iterator)
    IN  IF n.some
        THEN IF EqMatches(n.e, n.a) = "DoesNotMatch" THEN "DoesNotMatch"
             ELSE MatchesLoop(n.zip)
        ELSE IF ~n.zip.has_size_mismatch THEN "Matches" ELSE "DoesNotMatch"

\* ElementsAre::matches
ElementsAreMatches(elems, act) == MatchesLoop(Zip(act, elems))

\* line 123: one mismatch fragment
Fragment(i, a, e) ==
    "element #" \o ToString(i) \o " is " \o ToString(a) \o ", " \o EqExplainMatch(e, a)

RECURSIVE ExplainLoop(_, _, _, _)
\* lines 121-125: the loop over the enumerated zipped iterator; evaluated
\* lists the positions whose matcher was asked
ExplainLoop(zipped_iterator, i, mismatches, evaluated) ==
    LET n == ZipNext(zipped_iterator)
    IN  IF n.some
        THEN ExplainLoop(n.zip, i + 1,
                         IF EqMatches(n.e, n.a) = "DoesNotMatch"
                         THEN Append(mismatches, Fragment(i, n.a, n.e))
                         ELSE mismatches,
                         Append(evaluated, i))
        ELSE [zip |-> n.zip, mismatches |-> mismatches, evaluated |-> evaluated]

MutExplainMatchIgnoresSize(elems, act, actual_size) ==
    LET loop == ExplainLoop(Zip(act, elems), 0, <<>>, <<>>)
        mismatches == loop.mismatches
        text ==
            IF mismatches = <<>>
            THEN "whose elements all match"
            ELSE IF Len(mismatches) = 1
                 THEN "where " \o Display(Collect(mismatches))
                 ELSE "where:\n" \o Display(Indent(BulletList(Collect(mismatches))))
    IN  [value |-> text, evaluated |-> loop.evaluated]

\* ElementsAre::explain_match; actual_size is size_hint().0 of actual's
\* iterator
ElementsAreExplainMatch(elems, act, actual_size) ==
    LET loop == ExplainLoop(Zip(act, elems), 0, <<>>, <<>>)
        mismatches == loop.mismatches
        text ==
            IF mismatches = <<>>
            THEN IF ~loop.zip.has_size_mismatch
                 THEN "whose elements all match"
                 ELSE "whose size is " \o ToString(actual_size)
            ELSE IF Len(mismatches) = 1
                 THEN "where " \o Display(Collect(mismatches))
                 ELSE "where:\n" \o Display(Indent(BulletList(Collect(mismatches))))
    IN  [value |-> text, evaluated |-> loop.evaluated]

MutDescribePassesVerdict(elems, matcher_result) ==
    Pick(matcher_result, "has", "doesn't have") \o " elements:\n"
    \o Display(Indent(Enumerate(Collect(
          [k \in 1..Len(elems) |-> EqDescribe(elems[k], matcher_result)]))))

\* ElementsAre::describe
ElementsAreDescribe(elems, matcher_result) ==
    Pick(matcher_result, "has", "doesn't have") \o " elements:\n"
    \o Display(Indent(Enumerate(Collect(
          [k \in 1..Len(elems) |-> EqDescribe(elems[k], "Matches")]))))

----------------------------------------------------------------------------
(* The program: the three methods of an ElementsAre matcher *)

NoEditList ==
    /\ Called("char", <<>>, <<>>)
    /\ dist = <<>>

\* a matcher built by elements_are![eq(..), ..] and a container; the
\* container's iterator reports any lower bound of its length as size hint
InitMatcher ==
    /\ actual \in SeqsUpTo(Values, MaxElems)
    /\ elements \in SeqsUpTo({Eq(v) : v \in Values}, MaxElems)
    /\ size_hint \in 0..Len(actual)
    /\ call = [method |-> "none", matcher_result |-> "none"]
    /\ out = [value |-> "", evaluated |-> <<>>]
    /\ NoEditList

CallMatches ==
    /\ call' = [method |-> "matches", matcher_result |-> "none"]
    /\ out' = [value |-> ElementsAreMatches(elements, actual), evaluated |-> <<>>]
    /\ UNCHANGED <<actual, elements, size_hint, editVars>>

CallExplainMatch ==
    /\ call' = [method |-> "explain_match", matcher_result |-> "none"]
    /\ out' = ElementsAreExplainMatch(elements, actual, size_hint)
    /\ UNCHANGED <<actual, elements, size_hint, editVars>>

CallDescribe ==
    /\ \E matcher_result \in {"Matches", "DoesNotMatch"} :
          /\ call' = [method |-> "describe", matcher_result |-> matcher_result]
          /\ out' = [value |-> ElementsAreDescribe(elements, matcher_result),
                     evaluated |-> <<>>]
    /\ UNCHANGED <<actual, elements, size_hint, editVars>>

NextMatcher == CallMatches \/ CallExplainMatch \/ CallDescribe

SpecMatcher == InitMatcher /\ [][NextMatcher]_vars

----------------------------------------------------------------------------
(* What the properties below are stated with *)

\* the positions i (from 1) below both lengths
Paired == 1..Min(Len(actual), Len(elements))

PositionMatches(i) == actual[i] = elements[i].expected

\* the left elements of the ExtraLeft and Both edits, in order
RECURSIVE LeftOf(_)
LeftOf(edits) ==
    IF edits = <<>> THEN <<>>
    ELSE (IF Head(edits).kind = "ExtraRight" THEN <<>> ELSE <<Head(edits).left>>)
         \o LeftOf(Tail(edits))

\* the right elements of the ExtraRight and Both edits, in order
RECURSIVE RightOf(_)
RightOf(edits) ==
    IF edits = <<>> THEN <<>>
    ELSE (IF Head(edits).kind = "ExtraLeft" THEN <<>> ELSE <<Head(edits).right>>)
         \o RightOf(Tail(edits))

\* every alignment of the characters l with the characters r, each Both
\* carrying the character distance of its pair
RECURSIVE Alignments(_, _)
Alignments(l, r) ==
    IF l = <<>> /\ r = <<>> THEN {<<>>}
    ELSE (IF l = <<>> THEN {}
          ELSE {<<ExtraLeft(Head(l))>> \o t : t \in Alignments(Tail(l), r)})
         \cup
         (IF r = <<>> THEN {}
          ELSE {<<ExtraRight(Head(r))>> \o t : t \in Alignments(l, Tail(r))})
         \cup
         (IF l = <<>> \/ r = <<>> THEN {}
          ELSE {<<Both(Head(l), Head(r), IF Head(l) = Head(r) THEN 0 ELSE ONE)>> \o t :
                   t \in Alignments(Tail(l), Tail(r))})

\* the least total cost of an alignment of l with r
MinAlignmentCost(l, r) ==
    CHOOSE c \in {SumCosts(a) : a \in Alignments(l, r)} :
        \A a \in Alignments(l, r) : c <= SumCosts(a)

\* an edit list with left and right exchanged
Mirror(edits) ==
    [k \in 1..Len(edits) |->
        CASE edits[k].kind = "ExtraLeft" -> ExtraRight(edits[k].left)
          [] edits[k].kind = "ExtraRight" -> ExtraLeft(edits[k].right)
          [] edits[k].kind = "Both" ->
                Both(edits[k].right, edits[k].left, edits[k].distance)]

\* the call with the arguments exchanged, run to its end
Exchanged == edit_list(kind, right, left)

Kinds(edits) == {edits[k].kind : k \in 1..Len(edits)}

----------------------------------------------------------------------------
(* Properties *)

\* C1: ElementsAre::matches returns Matches if and only if actual has as
\* many elements as there are position matchers and every position matcher
\* matches its element; a container of another length never matches.
C1_MatchesIffSameLengthAndAllMatch ==
    call.method = "matches" =>
        /\ out.value \in {"Matches", "DoesNotMatch"}
        /\ out.value = "Matches" <=>
              /\ Len(actual) = Len(elements)
              /\ \A i \in Paired : PositionMatches(i)

\* matches has answered DoesNotMatch for a container that is longer than the
\* matcher list and whose paired positions all match
C1_Witness ==
    /\ call.method = "matches"
    /\ Len(actual) > Len(elements)
    /\ Len(elements) > 0
    /\ \A i \in Paired : PositionMatches(i)
    /\ out.value = "DoesNotMatch"

\* C2: a call of edit_list with an empty left or an empty right does not
\* abort: it returns one ExtraRight per element of right when left is
\* empty and one ExtraLeft per element of left when right is empty.
C2_EmptySequencesReturn ==
    (pc \in {"done", "panic"} /\ (left = <<>> \/ right = <<>>)) =>
        /\ pc = "done"
        /\ left = <<>> => path = [k \in 1..Len(right) |-> ExtraRight(right[k])]
        /\ right = <<>> => path = [k \in 1..Len(left) |-> ExtraLeft(left[k])]

\* C3: the edit list edit_list returns is an alignment of left with right
\* (its left elements read in order are left, its right elements are
\* right), its total cost is the cost of table cell (|left|, |right|), and
\* no alignment of left with right costs less.
C3_ReturnsMinimumCostAlignment ==
    pc = "done" =>
        /\ LeftOf(path) = left
        /\ RightOf(path) = right
        /\ Len(path) >= Max(Len(left), Len(right))
        /\ Len(path) <= Len(left) + Len(right)
        /\ SumCosts(path) = TableIndex(table, Len(left), Len(right)).cost
        /\ \A a \in Alignments(left, right) : SumCosts(path) <= SumCosts(a)

\* edit_list has returned an edit list that holds a deletion, an insertion
\* and a pairing of unequal characters
C3_Witness ==
    /\ pc = "done"
    /\ Kinds(path) = {"ExtraLeft", "ExtraRight", "Both"}
    /\ \E k \in 1..Len(path) : path[k].kind = "Both" /\ path[k].distance = ONE

\* C4: edit_list(s, s) returns |s| edits, each a Both of s[k] with itself
\* at distance 0, for s of any length, the empty s included.
C4_EqualSequencesGiveBothOnly ==
    (pc \in {"done", "panic"} /\ left = right) =>
        /\ pc = "done"
        /\ path = [k \in 1..Len(left) |-> Both(left[k], left[k], 0)]

\* C5 as claimed: when edit_list(a, b) and edit_list(b, a) both return, the
\* one is the mirror image of the other.
C5_ExchangedCallIsMirrorImage ==
    (pc = "done" /\ Exchanged.pc = "done") => Exchanged.path = Mirror(path)

\* C5, amended: when edit_list(a, b) and edit_list(b, a) both return, their
\* edit lists have the same total cost.
C5_ExchangedCallHasSameCost ==
    (pc = "done" /\ Exchanged.pc = "done") =>
        SumCosts(Exchanged.path) = SumCosts(path)

\* both calls have returned, with the same cost, and the two edit lists are
\* not mirror images
C5_Witness ==
    /\ pc = "done"
    /\ Exchanged.pc = "done"
    /\ SumCosts(path) > 0
    /\ Exchanged.path # Mirror(path)

\* C6: under the character distance the total cost of the edit list
\* edit_list returns is at most max(|a|, |b|).
C6_CostAtMostLongerLength ==
    (pc = "done" /\ kind = "char") =>
        SumCosts(path) <= Max(Len(left), Len(right)) * ONE

\* edit_list has returned for two sequences of different lengths at a cost
\* of exactly the longer length
C6_Witness ==
    /\ pc = "done"
    /\ kind = "char"
    /\ Len(left) # Len(right)
    /\ Len(right) > 0
    /\ SumCosts(path) = Max(Len(left), Len(right)) * ONE

\* the value C7 gives the string distance of the lines a and b
ClaimedStrDistance(a, b) ==
    IF a = b THEN 0
    ELSE ONE + MinAlignmentCost(a, b) \div Max(Len(a), Len(b))

\* C7: the string distance returns a value for every pair of texts, the
\* empty text included: 0 for identical texts and 1 + C / max(len) for
\* others, C being the total cost of the character-level alignment.
C7_StrDistanceReturnsValue ==
    dist # <<>> =>
        /\ ~dist[1].panic
        /\ dist[1].value = ClaimedStrDistance(left[1], right[1])

\* C8: the string distance of any two strings is below 2, and edit_list on
\* two differing lines pairs them in one Both edit.
C8_StrDistanceBelowTwo ==
    /\ dist # <<>> => (~dist[1].panic /\ dist[1].value < 2 * ONE)
    /\ (pc \in {"done", "panic"} /\ left[1] # right[1]) =>
          (pc = "done" /\ Kinds(path) = {"Both"})

\* the explanation C9 describes, L being the length of actual
ClaimedFailing == {i \in Paired : ~PositionMatches(i)}

ClaimedFragment(i) ==
    "element #" \o ToString(i - 1) \o " is " \o ToString(actual[i]) \o ", which isn't equal to "
    \o ToString(elements[i].expected)

RECURSIVE ClaimedBullets(_)
ClaimedBullets(i) ==
    IF i > Len(actual) \/ i > Len(elements) THEN ""
    ELSE (IF i \in ClaimedFailing THEN "\n  * " \o ClaimedFragment(i) ELSE "")
         \o ClaimedBullets(i + 1)

ClaimedExplanation ==
    IF ClaimedFailing = {}
    THEN IF Len(actual) = Len(elements)
         THEN "whose elements all match"
         ELSE "whose size is " \o ToString(Len(actual))
    ELSE IF Cardinality(ClaimedFailing) = 1
         THEN "where " \o ClaimedFragment(CHOOSE i \in ClaimedFailing : TRUE)
         ELSE "where:" \o ClaimedBullets(1)

\* C9: explain_match asks the matcher of every paired position and returns
\* "whose elements all match", "whose size is L" with L the length of
\* actual, "where <fragment>" or "where:" and a bullet list of the fragments
\* of the failing positions.
C9_ExplainMatchText ==
    call.method = "explain_match" =>
        /\ out.evaluated = [i \in Paired |-> i - 1]
        /\ out.value = ClaimedExplanation

RECURSIVE ClaimedEntries(_)
ClaimedEntries(i) ==
    IF i > Len(elements) THEN ""
    ELSE (IF i = 1 THEN "" ELSE "\n")
         \o "  " \o ToString(i - 1) \o ". is equal to " \o ToString(elements[i].expected)
         \o ClaimedEntries(i + 1)

\* C10: describe renders "has elements:" for Matches and "doesn't have
\* elements:" for DoesNotMatch, then one entry per position matcher, in
\* order and numbered from 0, each the matcher's description for Matches.
C10_DescribeText ==
    call.method = "describe" =>
        out.value =
            (IF call.matcher_result = "Matches"
             THEN "has elements:" ELSE "doesn't have elements:")
            \o "\n" \o ClaimedEntries(1)

\* describe(DoesNotMatch) has been called on a matcher of two or more
\* position matchers
C10_Witness ==
    /\ call.method = "describe"
    /\ call.matcher_result = "DoesNotMatch"
    /\ Len(elements) >= 2
    /\ out.value # ""

\* the cost held at offset i + (|left| + 1) * j of the table's vector
CostAt(i, j) == table.table[i + (Len(left) + 1) * j + 1].cost

\* the interior cells (i, j), i, j >= 1, pushed so far
InteriorPushed ==
    {c \in (1..Len(left)) \X (1..Len(right)) :
        c[1] + (Len(left) + 1) * c[2] < Len(table.table)}

DeleteCost(i, j) == ONE + CostAt(i - 1, j)
InsertCost(i, j) == ONE + CostAt(i, j - 1)
PairDistance(i, j) == IF left[i] = right[j] THEN 0 ELSE ONE
AlignCost(i, j) == PairDistance(i, j) + CostAt(i - 1, j - 1)
LeastCost(i, j) == Min(DeleteCost(i, j), Min(InsertCost(i, j), AlignCost(i, j)))

\* the first of the candidates of least cost, in the order delete, insert,
\* align
FirstLeast(i, j) ==
    IF DeleteCost(i, j) = LeastCost(i, j) THEN ExtraLeft(left[i])
    ELSE IF InsertCost(i, j) = LeastCost(i, j) THEN ExtraRight(right[j])
    ELSE Both(left[i], right[j], PairDistance(i, j))

\* the tests completely_different and slightly_different
Goodbye == <<"g", "o", "o", "d", "b", "y", "e">>
Hello == <<"h", "e", "l", "l", "o">>
Floor == <<"f", "l", "o", "o", "r">>
Flower == <<"f", "l", "o", "w", "e", "r">>

GoodbyeHelloEdits == edit_list("char", Goodbye, Hello).path
FloorFlowerEdits == edit_list("char", Floor, Flower).path

\* C11: every interior cell records the first candidate of least cost in
\* the order delete, insert, align; edit_list gives the edit lists of the
\* tests for "goodbye" against "hello" and for "floor" against "flower".
C11_FirstLeastCandidateRecorded ==
    /\ \A c \in InteriorPushed :
          table.table[c[1] + (Len(left) + 1) * c[2] + 1].last_edit
              = FirstLeast(c[1], c[2])
    /\ GoodbyeHelloEdits =
          << Both("g", "h", ONE), Both("o", "e", ONE), Both("o", "l", ONE),
             Both("d", "l", ONE), Both("b", "o", ONE),
             ExtraLeft("y"), ExtraLeft("e") >>
    /\ FloorFlowerEdits =
          << Both("f", "f", 0), Both("l", "l", 0), Both("o", "o", 0),
             Both("o", "w", ONE), ExtraRight("e"), Both("r", "r", 0) >>

\* the call has returned from a table in which one cell recorded a deletion
\* that tied with the pairing and another an insertion that tied with the
\* pairing
C11_Witness ==
    /\ pc = "done"
    /\ \E c \in InteriorPushed :
          /\ DeleteCost(c[1], c[2]) = AlignCost(c[1], c[2])
          /\ DeleteCost(c[1], c[2]) = LeastCost(c[1], c[2])
          /\ TableIndex(table, c[1], c[2]).last_edit.kind = "ExtraLeft"
    /\ \E c \in InteriorPushed :
          /\ InsertCost(c[1], c[2]) = AlignCost(c[1], c[2])
          /\ InsertCost(c[1], c[2]) < DeleteCost(c[1], c[2])
          /\ TableIndex(table, c[1], c[2]).last_edit.kind = "ExtraRight"

\* the fill phase has finished: the call is tracing back or has returned
Filled == pc \in {"trace", "done"}

\* the three cells the inner loop is about to read for cell (idx, idy)
AboutToRead ==
    IF pc = "cell" /\ idx < Len(left) + 1
    THEN {<<idx - 1, idy>>, <<idx, idy - 1>>, <<idx - 1, idy - 1>>}
    ELSE {}

\* C12: when the fill phase has finished the table holds (|left| + 1) *
\* (|right| + 1) cells, indexing (i, j) returns the cell at offset
\* i + (|left| + 1) * j, and the costs are 0 at (0, 0), i at (i, 0), j at
\* (0, j) and the least of the three candidates at an interior (i, j);
\* every cell the fill phase reads has been pushed before.
C12_TableFilledByRecurrence ==
    /\ \A c \in AboutToRead : c[1] + (Len(left) + 1) * c[2] < Len(table.table)
    /\ Filled =>
          /\ Len(table.table) = (Len(left) + 1) * (Len(right) + 1)
          /\ \A i \in 0..Len(left), j \in 0..Len(right) :
                /\ TableHas(table, i, j)
                /\ TableIndex(table, i, j) = table.table[i + (Len(left) + 1) * j + 1]
          /\ CostAt(0, 0) = 0
          /\ \A i \in 1..Len(left) : CostAt(i, 0) = i * ONE
          /\ \A j \in 1..Len(right) : CostAt(0, j) = j * ONE
          /\ \A i \in 1..Len(left), j \in 1..Len(right) :
                CostAt(i, j) = LeastCost(i, j)

\* the fill phase has finished on a table that is not square and whose last
\* cell was reached by a pairing of unequal characters
C12_Witness ==
    /\ Filled
    /\ Len(left) > Len(right)
    /\ Len(right) >= 2
    /\ CostAt(Len(left), Len(right)) > (Len(left) - Len(right)) * ONE
    /\ CostAt(Len(left), Len(right)) < Len(left) * ONE

\* where the trace-back stands and what it has collected
TraceBounded ==
    /\ pc = "trace" =>
          /\ current[1] \in 0..Len(left)
          /\ current[2] \in 0..Len(right)
          /\ Len(path) + current[1] + current[2] <= Len(left) + Len(right)
          /\ ENABLED Next
    /\ pc = "done" =>
          /\ current = <<0, 0>>
          /\ Len(path) <= Len(left) + Len(right)

\* one iteration of the trace-back loop: it does not panic, it appends the
\* edit of the cell it stands on, which is not cell (0, 0), and moves to a
\* cell of smaller coordinate sum without taking a coordinate below 0
TraceDescends ==
    (pc = "trace" /\ current # <<0, 0>>) =>
        /\ pc' = "trace"
        /\ path' = Append(path,
              table.table[current[1] + (Len(left) + 1) * current[2] + 1].last_edit)
        /\ current[1] + (Len(left) + 1) * current[2] # 0
        /\ current'[1] \in {current[1], current[1] - 1}
        /\ current'[2] \in {current[2], current[2] - 1}
        /\ current'[1] >= 0
        /\ current'[2] >= 0
        /\ current'[1] + current'[2] < current[1] + current[2]

\* the step taken at cell (0, 0) is the return
TraceReturns == (pc = "trace" /\ current = <<0, 0>>) => pc' = "done"

\* C13: the trace-back started at cell (|left|, |right|) ends at cell
\* (0, 0) after at most |left| + |right| steps: while it stands on another
\* cell a step is possible, every step moves to a cell of strictly smaller
\* coordinate sum, takes no coordinate below 0 and does not panic, the
\* step at (0, 0) returns, and the placeholder edit of cell (0, 0) is
\* never read into the result.
C13_TraceBackTerminates ==
    /\ []TraceBounded
    /\ [][TraceDescends /\ TraceReturns]_vars

\* the trace-back has ended at (0, 0) after more steps than the longer
\* sequence has elements, deletions and insertions among them
C13_Witness ==
    /\ pc = "done"
    /\ current = <<0, 0>>
    /\ Len(path) > Max(Len(left), Len(right))
    /\ {"ExtraLeft", "ExtraRight"} \subseteq Kinds(path)

\* whether text starts with prefix
StartsWith(text, prefix) ==
    Len(text) >= Len(prefix) /\ SubSeq(text, 1, Len(prefix)) = prefix

\* the explanation is one of a container that does not match
ExplainsMismatch(text) ==
    StartsWith(text, "whose size is ") \/ StartsWith(text, "where")

\* what the two methods return for the matcher and the container at hand
MatchesVerdict == ElementsAreMatches(elements, actual)
ExplanationText == ElementsAreExplainMatch(elements, actual, size_hint).value

\* C14: on every container and matcher list, explain_match returns "whose
\* elements all match" exactly when matches returns Matches, and a "whose
\* size is ..." or "where ..." explanation exactly when matches returns
\* DoesNotMatch.
C14_ExplainMatchAgreesWithMatches ==
    /\ call.method = "explain_match" =>
          /\ out.value = "whose elements all match" <=> MatchesVerdict = "Matches"
          /\ ExplainsMismatch(out.value) <=> MatchesVerdict = "DoesNotMatch"
    /\ call.method = "matches" =>
          /\ out.value = "Matches" <=> ExplanationText = "whose elements all match"
          /\ out.value = "DoesNotMatch" <=> ExplainsMismatch(ExplanationText)

\* explain_match has explained two failing positions of a container that is
\* also of the wrong size, where matches stops at the first of them
C14_Witness ==
    /\ call.method = "explain_match"
    /\ Len(actual) # Len(elements)
    /\ Cardinality({i \in Paired : ~PositionMatches(i)}) >= 2
    /\ StartsWith(out.value, "where:")
    /\ Len(out.evaluated) > 1
    /\ MatchesVerdict = "DoesNotMatch"

====
